---- MODULE Spec2Model ----
(***************************************************************************)
(* Model of portfolio.py: the valuation of one monthly contribution under  *)
(* the no-crash and the crash scenario, the expected total value, the grid *)
(* search for the best allocation x, and the sweep over cut-off month and  *)
(* crash loss.                                                             *)
(*                                                                         *)
(* Numbers.  The script computes in binary floating point.  The model      *)
(* keeps that arithmetic (round to nearest, ties to even, after every      *)
(* operation) at a reduced mantissa width of MantBits bits, with an        *)
(* unbounded exponent.  A float is a pair <<m, e>> standing for m * 2^e,   *)
(* with 2^(MantBits-1) <= m < 2^MantBits, or <<0, 0>> for zero.  Every     *)
(* value the script computes is non-negative, so there is no sign.         *)
(* Mantissas are multiplied and divided in two limbs, so that no           *)
(* intermediate value leaves the 32-bit integers.                          *)
(***************************************************************************)
EXTENDS Integers, Sequences, FiniteSets, TLC

MantBits == 26

Two(n) == 2 ^ n

\* The limbs of a mantissa: the low LoBits bits and the bits above them.
LoBits == MantBits \div 2

Zero == <<0, 0>>

\* The number of bits of n >= 0.
RECURSIVE BitLen(_)
BitLen(n) ==
    IF n >= 65536 THEN 16 + BitLen(n \div 65536)
    ELSE IF n >= 256 THEN 8 + BitLen(n \div 256)
    ELSE IF n >= 16 THEN 4 + BitLen(n \div 16)
    ELSE IF n >= 4 THEN 2 + BitLen(n \div 4)
    ELSE IF n >= 2 THEN 2
    ELSE n

\* 2^MantBits, the bound of the mantissas.
MantTop == Two(MantBits)

\* q * 2^e with a remainder rem < pw behind it (in units of 1/pw), for a q of
\* MantBits bits: nearest, ties to even.
RoundUp(q, rem, pw, e) ==
    IF (2 * rem > pw) \/ (2 * rem = pw /\ q % 2 = 1)
    THEN IF q + 1 = MantTop
         THEN <<MantTop \div 2, e + 1>>
         ELSE <<q + 1, e>>
    ELSE <<q, e>>

\* n * 2^e rounded to a float, for n > 0 of len bits.
RoundBits(n, e, len) ==
    IF len <= MantBits
    THEN <<n * Two(MantBits - len), e - (MantBits - len)>>
    ELSE RoundUp(n \div Two(len - MantBits), n % Two(len - MantBits),
                 Two(len - MantBits), e + len - MantBits)

Round(n, e) == IF n = 0 THEN Zero ELSE RoundBits(n, e, BitLen(n))

\* An int in a float operand (monthly_budget, the loop counter of linspace).
FromInt(n) == Round(n, 0)

One == FromInt(1)

FLess(a, b) ==
    IF a[1] = 0 THEN b[1] > 0
    ELSE IF b[1] = 0 THEN FALSE
    ELSE (a[2] < b[2]) \/ (a[2] = b[2] /\ a[1] < b[1])

FLeq(a, b) == a = b \/ FLess(a, b)

\* The weight of the high limb, and of the product of two high limbs.
Lim == Two(LoBits)

LowP == Lim * Lim

\* The product of two mantissas is top * LowP + low, and top has TopBits bits
\* or one less.
TopBits == 2 * (MantBits - LoBits)

MulRound(top, low, e) ==
    IF top >= Two(TopBits - 1)
    THEN IF TopBits = MantBits
         THEN RoundUp(top, low, LowP, e)
         ELSE RoundUp(top \div 2, (top % 2) * LowP + low, 2 * LowP, e + 1)
    ELSE IF TopBits = MantBits
         THEN RoundUp(2 * top + (low \div (LowP \div 2)), low % (LowP \div 2),
                      LowP \div 2, e - 1)
         ELSE RoundUp(top, low, LowP, e)

\* The partial products hh * LowP + mid * Lim + ll, carried upwards.
MulCarry(hh, mid, ll, e) ==
    MulRound(hh + (mid \div Lim), (mid % Lim) * Lim + ll, e)

MulLimbs(ah, al, bh, bl, e) ==
    MulCarry(ah * bh, ah * bl + al * bh + ((al * bl) \div Lim), (al * bl) % Lim, e)

\* a * b
FMul(a, b) ==
    IF a[1] = 0 \/ b[1] = 0 THEN Zero
    ELSE MulLimbs(a[1] \div Lim, a[1] % Lim, b[1] \div Lim, b[1] % Lim,
                  a[2] + b[2] + 2 * LoBits)

\* 4 * m shifted right by d >= 1 bits, and whether bits were shifted out.
Shifted(m, d) ==
    IF d > MantBits + 2 THEN <<0, 1>>
    ELSE <<(4 * m) \div Two(d), IF (4 * m) % Two(d) = 0 THEN 0 ELSE 1>>

\* a + b: two guard bits and a sticky bit on the smaller operand.  The sum of
\* the mantissas has one bit more than they, or two.
FAdd(a, b) ==
    IF a[1] = 0 THEN b
    ELSE IF b[1] = 0 THEN a
    ELSE LET hi == IF a[2] >= b[2] THEN a ELSE b
             lo == IF a[2] >= b[2] THEN b ELSE a
             d  == hi[2] - lo[2]
             y  == Shifted(lo[1], d)
             n  == 2 * (4 * hi[1] + y[1]) + y[2]
         IN  IF d = 0 THEN RoundBits(hi[1] + lo[1], hi[2], MantBits + 1)
             ELSE RoundBits(n, hi[2] - 3,
                            IF n >= Two(MantBits + 3) THEN MantBits + 4 ELSE MantBits + 3)

\* a - b, for a >= b
FSub(a, b) ==
    IF b[1] = 0 THEN a
    ELSE LET d == a[2] - b[2]
             y == Shifted(b[1], d)
         IN  IF d = 0 THEN Round(a[1] - b[1], a[2])
             ELSE Round(2 * (4 * a[1] - y[1] - y[2]) + y[2], a[2] - 3)

\* The quotient bits of rem / b, two at a time, n times; rem < b.
RECURSIVE DivBits(_, _, _, _)
DivBits(rem, b, n, acc) ==
    IF n = 0 THEN <<acc, rem>>
    ELSE DivBits((4 * rem) % b, b, n - 1, 4 * acc + ((4 * rem) \div b))

\* How many pairs of quotient bits FDiv takes after the leading one:
\* MantBits + 2 bits at least.
DivSteps == (MantBits + 2) \div 2

\* a / b, for b > 0: the dividend is doubled where its mantissa is the smaller,
\* so the quotient starts with a one bit; long division, and a sticky bit for
\* the remainder.
FDiv(a, b) ==
    IF a[1] = 0 THEN Zero
    ELSE LET dbl == IF a[1] >= b[1] THEN 0 ELSE 1
             qr  == DivBits((dbl + 1) * a[1] - b[1], b[1], DivSteps, 1)
         IN  Round(2 * qr[1] + (IF qr[2] = 0 THEN 0 ELSE 1),
                   a[2] - b[2] - dbl - 2 * DivSteps - 1)

(***************************************************************************)
(* The sliders (lines 23-38).  A slider position is kept in units of the   *)
(* slider's step; the script divides the percentages by 100.               *)
(***************************************************************************)
GridPoints == 101
LossPoints == 21
MonthsPerYear == 12
MinMonths == 12
DefaultMonths == 24
DefaultBudget == 500
LossSliderMax == 20

Hundred == FromInt(100)

\* slider value q * 0.25 (%), / 100
CashRate(q) == FDiv(Round(q, -2), Hundred)
\* slider value h * 0.5 (%), / 100
StockRate(h) == FDiv(Round(h, -1), Hundred)
\* slider value L * 5.0 (%), / 100
CrashLoss(L) == FDiv(FromInt(5 * L), Hundred)
\* slider value c * 1.0 (%), / 100
CheapRate(c) == FDiv(FromInt(c), Hundred)
\* slider value pp * 5 (%), / 100
CrashProb(pp) == FDiv(FromInt(5 * pp), Hundred)

\* The slider positions the model draws from.
CashSteps == {0, 11}
StockSteps == {0, 20}
CheapSteps == {0, 10}
LossSteps == {0, 6, LossSliderMax}
CutoffSteps == {1, 6, MinMonths}
ProbSteps == {0, 10, 20}

Sliders(b, mo, q, h, L, c, cut, pp) ==
    [monthly_budget            |-> FromInt(b),
     months                    |-> mo,
     cash_interest_rate        |-> CashRate(q),
     stock_growth_rate         |-> StockRate(h),
     stock_crash_loss          |-> CrashLoss(L),
     cheap_stock_annual_return |-> CheapRate(c),
     cutoff                    |-> cut,
     crash_probability         |-> CrashProb(pp)]

\* The values the sliders start with (the value= of lines 23-38).
DefaultSliders == Sliders(DefaultBudget, DefaultMonths, 11, 20, 6, 20, 12, 10)

SliderSets ==
    {Sliders(DefaultBudget, MinMonths, q, h, L, c, cut, pp) :
        q \in CashSteps, h \in StockSteps, L \in LossSteps, c \in CheapSteps,
        cut \in CutoffSteps, pp \in ProbSteps}
    \cup {DefaultSliders}

\* The slider positions of the runs that go through the whole sweep.
SweepSliderSets ==
    {Sliders(DefaultBudget, MinMonths, 11, 20, 6, 10, 6, 10),
     Sliders(DefaultBudget, MinMonths, 0, 0, 6, 10, 6, 10),
     Sliders(DefaultBudget, MinMonths, 11, 20, LossSliderMax, 10, 6, 10)}

(***************************************************************************)
(* (1 + rate) ** (k / 12), the power of lines 78-99.  The exponent of      *)
(* every call is a whole number k of months over 12.  Whole years are      *)
(* multiplied out; the remaining months multiply out the twelfth root of   *)
(* the base, which is the largest float whose twelfth power does not       *)
(* exceed the base.  The powers are tabulated for the rates of the runs.   *)
(***************************************************************************)
RECURSIVE PowInt(_, _)
PowInt(f, n) == IF n = 0 THEN One ELSE FMul(PowInt(f, n - 1), f)

\* The largest mantissa in lo..hi whose float, to the twelfth power, is <= b.
RECURSIVE Root12In(_, _, _)
Root12In(b, lo, hi) ==
    IF lo = hi THEN lo
    ELSE LET mid == (lo + hi + 1) \div 2
         IN  IF FLeq(PowInt(<<mid, 1 - MantBits>>, MonthsPerYear), b)
             THEN Root12In(b, mid, hi)
             ELSE Root12In(b, lo, mid - 1)

\* For a base b in [1, 2).
Root12(b) == <<Root12In(b, Two(MantBits - 1), b[1]), 1 - MantBits>>

Rates ==
    {P.cash_interest_rate : P \in SliderSets \cup SweepSliderSets}
    \cup {P.stock_growth_rate : P \in SliderSets \cup SweepSliderSets}
    \cup {P.cheap_stock_annual_return : P \in SliderSets \cup SweepSliderSets}

Root12Tab == [r \in Rates |-> Root12(FAdd(One, r))]

PowTab ==
    [r \in Rates |->
        [k \in 0..DefaultMonths |->
            FMul(PowInt(FAdd(One, r), k \div MonthsPerYear),
                 PowInt(Root12Tab[r], k % MonthsPerYear))]]

\* (1 + rate) ** (k / 12)
Pow(rate, k) == PowTab[rate][k]

(***************************************************************************)
(* The grids of lines 116, 230 and 236.                                    *)
(***************************************************************************)
\* np.linspace(0, stop, num): i * step, and the end point itself.  1-indexed.
Linspace(stop, num) ==
    [n \in 1..num |->
        IF n = num THEN stop ELSE FMul(FromInt(n - 1), FDiv(stop, FromInt(num - 1)))]

x_values == Linspace(One, GridPoints)

x_grid == Linspace(One, GridPoints)

loss_range == Linspace(Round(1, -1), LossPoints)

\* 1 / d, the quotient of lines 94 and 208, tabulated for the values of
\* 1 - loss of the runs that are not zero.
Reciprocal ==
    [d \in ({FSub(One, P.stock_crash_loss) : P \in SliderSets \cup SweepSliderSets}
             \cup {FSub(One, loss_range[n]) : n \in 1..LossPoints}) \ {Zero} |->
        FDiv(One, d)]

(***************************************************************************)
(* The valuation (lines 73-111).  P holds the globals the functions read.  *)
(***************************************************************************)
\* no_crash_value_for_month with the cash leg on the share 1 - x * x.
no_crash_value_for_month_concave(P, m, x) ==
    LET k          == P.months - m + 1
        value_etf  == FMul(FMul(P.monthly_budget, x),
                           Pow(P.stock_growth_rate, k))
        value_cash == FMul(FMul(P.monthly_budget, FSub(One, FMul(x, x))),
                           Pow(P.cash_interest_rate, k))
    IN  FAdd(value_etf, value_cash)

no_crash_value_for_month(P, m, x) ==
    LET k          == P.months - m + 1
        value_etf  == FMul(FMul(P.monthly_budget, x),
                           Pow(P.stock_growth_rate, k))
        value_cash == FMul(FMul(P.monthly_budget, FSub(One, x)),
                           Pow(P.cash_interest_rate, k))
    IN  FAdd(value_etf, value_cash)

\* crash_value_for_month with only the share x of a contribution made after
\* the crash put into the ETF.
crash_value_for_month_share(P, m, x) ==
    IF m < P.cutoff
    THEN LET t_pre      == P.cutoff - m
             t_post     == P.months - P.cutoff
             value_etf  == FMul(FMul(P.monthly_budget, x),
                                Pow(P.stock_growth_rate, t_pre))
             value_cash == FMul(FMul(P.monthly_budget, FSub(One, x)),
                                Pow(P.cash_interest_rate, t_pre))
             etf_lost   == FMul(value_etf, FSub(One, P.stock_crash_loss))
             cash_conv  == FMul(value_cash, Reciprocal[FSub(One, P.stock_crash_loss)])
             cash_grown == FMul(cash_conv,
                                Pow(P.cheap_stock_annual_return, t_post))
         IN  FAdd(etf_lost, cash_grown)
    ELSE FMul(FMul(P.monthly_budget, x),
              Pow(P.stock_growth_rate, P.months - m + 1))

\* crash_value_for_month with the cash leg on the share x, as the ETF leg.
crash_value_for_month_samex(P, m, x) ==
    IF m < P.cutoff
    THEN LET t_pre      == P.cutoff - m
             t_post     == P.months - P.cutoff
             value_etf  == FMul(FMul(P.monthly_budget, x),
                                Pow(P.stock_growth_rate, t_pre))
             value_cash == FMul(FMul(P.monthly_budget, x),
                                Pow(P.cash_interest_rate, t_pre))
             etf_lost   == FMul(value_etf, FSub(One, P.stock_crash_loss))
             cash_conv  == FMul(value_cash, Reciprocal[FSub(One, P.stock_crash_loss)])
             cash_grown == FMul(cash_conv,
                                Pow(P.cheap_stock_annual_return, t_post))
         IN  FAdd(etf_lost, cash_grown)
    ELSE FMul(P.monthly_budget,
              Pow(P.stock_growth_rate, P.months - m + 1))

\* crash_value_for_month with the cash leg multiplied by 1 - loss, as the ETF
\* leg, for divided by it.
crash_value_for_month_lossy(P, m, x) ==
    IF m < P.cutoff
    THEN LET t_pre      == P.cutoff - m
             t_post     == P.months - P.cutoff
             value_etf  == FMul(FMul(P.monthly_budget, x),
                                Pow(P.stock_growth_rate, t_pre))
             value_cash == FMul(FMul(P.monthly_budget, FSub(One, x)),
                                Pow(P.cash_interest_rate, t_pre))
             etf_lost   == FMul(value_etf, FSub(One, P.stock_crash_loss))
             cash_conv  == FMul(value_cash, FSub(One, P.stock_crash_loss))
             cash_grown == FMul(cash_conv,
                                Pow(P.cheap_stock_annual_return, t_post))
         IN  FAdd(etf_lost, cash_grown)
    ELSE FMul(P.monthly_budget,
              Pow(P.stock_growth_rate, P.months - m + 1))

\* crash_value_for_month with a contribution made after the crash divided by
\* the growth factor, for multiplied by it.
crash_value_for_month_discounted(P, m, x) ==
    IF m < P.cutoff
    THEN LET t_pre      == P.cutoff - m
             t_post     == P.months - P.cutoff
             value_etf  == FMul(FMul(P.monthly_budget, x),
                                Pow(P.stock_growth_rate, t_pre))
             value_cash == FMul(FMul(P.monthly_budget, FSub(One, x)),
                                Pow(P.cash_interest_rate, t_pre))
             etf_lost   == FMul(value_etf, FSub(One, P.stock_crash_loss))
             cash_conv  == FMul(value_cash, Reciprocal[FSub(One, P.stock_crash_loss)])
             cash_grown == FMul(cash_conv,
                                Pow(P.cheap_stock_annual_return, t_post))
         IN  FAdd(etf_lost, cash_grown)
    ELSE FDiv(P.monthly_budget,
              Pow(P.stock_growth_rate, P.months - m + 1))

crash_value_for_month(P, m, x) ==
    IF m < P.cutoff
    THEN LET t_pre      == P.cutoff - m
             t_post     == P.months - P.cutoff
             value_etf  == FMul(FMul(P.monthly_budget, x),
                                Pow(P.stock_growth_rate, t_pre))
             value_cash == FMul(FMul(P.monthly_budget, FSub(One, x)),
                                Pow(P.cash_interest_rate, t_pre))
             etf_lost   == FMul(value_etf, FSub(One, P.stock_crash_loss))
             cash_conv  == FMul(value_cash, Reciprocal[FSub(One, P.stock_crash_loss)])
             cash_grown == FMul(cash_conv,
                                Pow(P.cheap_stock_annual_return, t_post))
         IN  FAdd(etf_lost, cash_grown)
    ELSE FMul(P.monthly_budget,
              Pow(P.stock_growth_rate, P.months - m + 1))

\* Line 94 divides by 1 - stock_crash_loss for every month before the cut-off.
RaisesZeroDivision(P, cutoff_val, crash_loss) ==
    /\ FSub(One, crash_loss) = Zero
    /\ {m \in 1..P.months : m < cutoff_val} # {}

\* total_no_crash and total_crash after the months 1..m of the loop of line 108
RECURSIVE SumNoCrash(_, _, _)
SumNoCrash(P, x, m) ==
    IF m = 0 THEN Zero
    ELSE FAdd(SumNoCrash(P, x, m - 1), no_crash_value_for_month(P, m, x))

RECURSIVE TotalCrash(_, _, _)
TotalCrash(P, x, m) ==
    IF m = 0 THEN Zero
    ELSE FAdd(TotalCrash(P, x, m - 1), crash_value_for_month(P, m, x))

\* The globals no_crash_value_for_month reads.
NoCrashGlobals(P) ==
    [monthly_budget     |-> P.monthly_budget,
     months             |-> P.months,
     cash_interest_rate |-> P.cash_interest_rate,
     stock_growth_rate  |-> P.stock_growth_rate]

\* total_no_crash after the whole loop, tabulated for the runs and the grid:
\* it is the same for every cut-off month, loss and probability.
TotalNoCrashTab ==
    [G \in {NoCrashGlobals(P) : P \in SliderSets \cup SweepSliderSets} |->
        [x \in {x_values[n] : n \in 1..GridPoints} |-> SumNoCrash(G, x, G.months)]]

TotalNoCrash(P, x) == TotalNoCrashTab[NoCrashGlobals(P)][x]

\* expected_total_value with the two weights exchanged.
expected_total_value_swapped(P, x) ==
    FAdd(FMul(FSub(One, P.crash_probability), TotalCrash(P, x, P.months)),
         FMul(P.crash_probability, TotalNoCrash(P, x)))

expected_total_value(P, x) ==
    FAdd(FMul(P.crash_probability, TotalCrash(P, x, P.months)),
         FMul(FSub(One, P.crash_probability), TotalNoCrash(P, x)))

(***************************************************************************)
(* The grid search (lines 116-120).                                        *)
(***************************************************************************)
\* ArgMaxIn with the comparison turned round: the first position of the minimum.
RECURSIVE ArgMinIn(_, _, _)
ArgMinIn(seq, lo, hi) ==
    IF lo = hi THEN lo
    ELSE LET left  == ArgMinIn(seq, lo, (lo + hi) \div 2)
             right == ArgMinIn(seq, ((lo + hi) \div 2) + 1, hi)
         IN  IF FLess(seq[right], seq[left]) THEN right ELSE left

\* ArgMaxIn with <= for <: the last position of the maximum.
RECURSIVE ArgMaxLastIn(_, _, _)
ArgMaxLastIn(seq, lo, hi) ==
    IF lo = hi THEN lo
    ELSE LET left  == ArgMaxLastIn(seq, lo, (lo + hi) \div 2)
             right == ArgMaxLastIn(seq, ((lo + hi) \div 2) + 1, hi)
         IN  IF FLeq(seq[left], seq[right]) THEN right ELSE left

\* np.argmax over the entries lo..hi: the first position of their maximum.
\* (The halves are searched separately to keep the evaluation shallow; on a tie
\* the position in the lower half wins, as in a scan from the left.)
RECURSIVE ArgMaxIn(_, _, _)
ArgMaxIn(seq, lo, hi) ==
    IF lo = hi THEN lo
    ELSE LET left  == ArgMaxIn(seq, lo, (lo + hi) \div 2)
             right == ArgMaxIn(seq, ((lo + hi) \div 2) + 1, hi)
         IN  IF FLess(seq[left], seq[right]) THEN right ELSE left

\* np.argmax, as the 0-based index the script uses
ArgMax(seq) == ArgMaxIn(seq, 1, Len(seq)) - 1

\* The list of line 117 for the globals P, its entries lo..hi (1-indexed).
RECURSIVE BaseVals(_, _, _)
BaseVals(P, lo, hi) ==
    IF lo = hi
    THEN <<expected_total_value(P, x_values[lo])>>
    ELSE LET mid == (lo + hi) \div 2
         IN  BaseVals(P, lo, mid) \o BaseVals(P, mid + 1, hi)

(***************************************************************************)
(* The sweep over cut-off month and crash loss (lines 198-244).            *)
(***************************************************************************)
\* crash_value_for_month_sensitivity with the global cutoff read where the
\* argument cutoff_val is meant.
crash_value_for_month_sensitivity_global(P, m, x, cutoff_val, crash_loss) ==
    IF m < P.cutoff
    THEN LET t_pre      == P.cutoff - m
             t_post     == P.months - P.cutoff
             value_etf  == FMul(FMul(P.monthly_budget, x),
                                Pow(P.stock_growth_rate, t_pre))
             value_cash == FMul(FMul(P.monthly_budget, FSub(One, x)),
                                Pow(P.cash_interest_rate, t_pre))
             etf_lost   == FMul(value_etf, FSub(One, crash_loss))
             cash_conv  == FMul(value_cash, Reciprocal[FSub(One, crash_loss)])
             cash_grown == FMul(cash_conv,
                                Pow(P.cheap_stock_annual_return, t_post))
         IN  FAdd(etf_lost, cash_grown)
    ELSE FMul(P.monthly_budget,
              Pow(P.stock_growth_rate, P.months - m + 1))

crash_value_for_month_sensitivity(P, m, x, cutoff_val, crash_loss) ==
    IF m < cutoff_val
    THEN LET t_pre      == cutoff_val - m
             t_post     == P.months - cutoff_val
             value_etf  == FMul(FMul(P.monthly_budget, x),
                                Pow(P.stock_growth_rate, t_pre))
             value_cash == FMul(FMul(P.monthly_budget, FSub(One, x)),
                                Pow(P.cash_interest_rate, t_pre))
             etf_lost   == FMul(value_etf, FSub(One, crash_loss))
             cash_conv  == FMul(value_cash, Reciprocal[FSub(One, crash_loss)])
             cash_grown == FMul(cash_conv,
                                Pow(P.cheap_stock_annual_return, t_post))
         IN  FAdd(etf_lost, cash_grown)
    ELSE FMul(P.monthly_budget,
              Pow(P.stock_growth_rate, P.months - m + 1))

RECURSIVE TotalCrashSensitivity(_, _, _, _, _)
TotalCrashSensitivity(P, x, cutoff_val, crash_loss, m) ==
    IF m = 0 THEN Zero
    ELSE FAdd(TotalCrashSensitivity(P, x, cutoff_val, crash_loss, m - 1),
              crash_value_for_month_sensitivity(P, m, x, cutoff_val, crash_loss))

expected_total_value_sensitivity(P, x, p, cutoff_val, crash_loss) ==
    FAdd(FMul(p, TotalCrashSensitivity(P, x, cutoff_val, crash_loss, P.months)),
         FMul(FSub(One, p), TotalNoCrash(P, x)))

\* The list of line 241, its entries lo..hi (1-indexed).
RECURSIVE SensitivityVals(_, _, _, _, _, _)
SensitivityVals(P, p, cutoff_val, crash_loss, lo, hi) ==
    IF lo = hi
    THEN <<expected_total_value_sensitivity(P, x_grid[lo], p, cutoff_val, crash_loss)>>
    ELSE LET mid == (lo + hi) \div 2
         IN  SensitivityVals(P, p, cutoff_val, crash_loss, lo, mid)
             \o SensitivityVals(P, p, cutoff_val, crash_loss, mid + 1, hi)

cutoff_range(P) == [n \in 1..P.months |-> n]

(***************************************************************************)
(* The script as a state machine.  pc is the position in the script:       *)
(* "base" in the comprehension of line 117, "argmax" before lines 118-120, *)
(* "sweep" in the loops of lines 239-244, "done" after them, and           *)
(* "ZeroDivisionError" when line 94 has raised.                            *)
(***************************************************************************)
VARIABLES monthly_budget, months, cash_interest_rate, stock_growth_rate,
          stock_crash_loss, cheap_stock_annual_return, cutoff, crash_probability,
          pc, expected_values, optimal_index, optimal_x, optimal_value,
          i, j, optimal_x_matrix, max_expected_value_matrix

sliders == <<monthly_budget, months, cash_interest_rate, stock_growth_rate,
             stock_crash_loss, cheap_stock_annual_return, cutoff, crash_probability>>

base == <<expected_values, optimal_index, optimal_x, optimal_value>>

sweep == <<i, j, optimal_x_matrix, max_expected_value_matrix>>

vars == <<sliders, pc, base, sweep>>

\* The globals, as the functions read them.
Ambient ==
    [monthly_budget            |-> monthly_budget,
     months                    |-> months,
     cash_interest_rate        |-> cash_interest_rate,
     stock_growth_rate         |-> stock_growth_rate,
     stock_crash_loss          |-> stock_crash_loss,
     cheap_stock_annual_return |-> cheap_stock_annual_return,
     cutoff                    |-> cutoff,
     crash_probability         |-> crash_probability]

\* A name not yet bound.
Unset == <<>>

InitWith(S) ==
    /\ \E P \in S :
          /\ monthly_budget = P.monthly_budget
          /\ months = P.months
          /\ cash_interest_rate = P.cash_interest_rate
          /\ stock_growth_rate = P.stock_growth_rate
          /\ stock_crash_loss = P.stock_crash_loss
          /\ cheap_stock_annual_return = P.cheap_stock_annual_return
          /\ cutoff = P.cutoff
          /\ crash_probability = P.crash_probability
    /\ pc = "base"
    /\ expected_values = <<>>
    /\ optimal_index = -1
    /\ optimal_x = Unset
    /\ optimal_value = Unset
    /\ i = 0
    /\ j = 0
    /\ optimal_x_matrix = Unset
    /\ max_expected_value_matrix = Unset

Init == InitWith(SliderSets)

\* Line 117, one x of x_values: expected_total_value(x) is appended.
EvalX ==
    /\ pc = "base"
    /\ Len(expected_values) < GridPoints
    /\ ~RaisesZeroDivision(Ambient, cutoff, stock_crash_loss)
    /\ expected_values' =
          Append(expected_values,
                 expected_total_value(Ambient, x_values[Len(expected_values) + 1]))
    /\ pc' = IF Len(expected_values) + 1 = GridPoints THEN "argmax" ELSE "base"
    /\ UNCHANGED <<sliders, optimal_index, optimal_x, optimal_value, sweep>>

\* Line 117, when line 94 divides by zero: the script ends with the exception.
RaiseZeroDivision ==
    /\ pc = "base"
    /\ Len(expected_values) < GridPoints
    /\ RaisesZeroDivision(Ambient, cutoff, stock_crash_loss)
    /\ pc' = "ZeroDivisionError"
    /\ UNCHANGED <<sliders, base, sweep>>

\* Lines 118-120, and the zero matrices of lines 233-234.
PickOptimum ==
    /\ pc = "argmax"
    /\ optimal_index' = ArgMax(expected_values)
    /\ optimal_x' = x_values[ArgMax(expected_values) + 1]
    /\ optimal_value' = expected_values[ArgMax(expected_values) + 1]
    /\ optimal_x_matrix' = [r \in 1..LossPoints |-> [c \in 1..months |-> Zero]]
    /\ max_expected_value_matrix' = [r \in 1..LossPoints |-> [c \in 1..months |-> Zero]]
    /\ pc' = "sweep"
    /\ UNCHANGED <<sliders, expected_values, i, j>>

\* Lines 241-244 for the cell (i, j), 0-based as in the script.
SweepCell ==
    /\ pc = "sweep"
    /\ \E vals \in {SensitivityVals(Ambient, crash_probability,
                                     cutoff_range(Ambient)[j + 1], loss_range[i + 1],
                                     1, GridPoints)} :
          \E idx_opt \in {ArgMax(vals)} :
             /\ optimal_x_matrix' =
                   [optimal_x_matrix EXCEPT ![i + 1][j + 1] = x_grid[idx_opt + 1]]
             /\ max_expected_value_matrix' =
                   [max_expected_value_matrix EXCEPT ![i + 1][j + 1] = vals[idx_opt + 1]]
    /\ IF j + 1 < months
       THEN i' = i /\ j' = j + 1 /\ pc' = "sweep"
       ELSE IF i + 1 < LossPoints
            THEN i' = i + 1 /\ j' = 0 /\ pc' = "sweep"
            ELSE i' = i /\ j' = j /\ pc' = "done"
    /\ UNCHANGED <<sliders, base>>

\* The script up to the grid search's result.
Next == EvalX \/ RaiseZeroDivision \/ PickOptimum

Spec == Init /\ [][Next]_vars

\* The whole script, for the slider sets the sweep is followed for.
InitSweep == InitWith(SweepSliderSets)

NextSweep == EvalX \/ RaiseZeroDivision \/ PickOptimum \/ SweepCell

SpecSweep == InitSweep /\ [][NextSweep]_vars

(***************************************************************************)
(* The properties.                                                         *)
(***************************************************************************)
\* The grid search has returned.
Picked == pc \in {"sweep", "done"}

\* The x that line 117 evaluated last.
LastX == x_values[Len(expected_values)]

\* C2: for every month m from the cut-off month on (the cut-off month
\* included), crash_value_for_month and crash_value_for_month_sensitivity return
\* monthly_budget * (1 + stock_growth_rate) ** ((months - m + 1) / 12) for every
\* x of the grid, so the same value for any two x.
C2_PostCrashIgnoresX ==
    pc = "argmax" =>
        \A m \in 1..months :
            m >= cutoff =>
                \A n \in 1..GridPoints :
                    /\ crash_value_for_month(Ambient, m, x_values[n])
                          = FMul(monthly_budget, Pow(stock_growth_rate, months - m + 1))
                    /\ crash_value_for_month_sensitivity(Ambient, m, x_values[n],
                                                         cutoff, stock_crash_loss)
                          = FMul(monthly_budget, Pow(stock_growth_rate, months - m + 1))

\* A run with a cut-off month in mid-horizon and a positive stock rate: the
\* month before the cut-off is valued differently at x = 0 and x = 1, the
\* cut-off month is not.
C2_Witness ==
    /\ pc = "argmax"
    /\ 1 < cutoff /\ cutoff < months
    /\ stock_growth_rate # Zero
    /\ crash_value_for_month(Ambient, cutoff - 1, x_values[1])
          # crash_value_for_month(Ambient, cutoff - 1, x_values[GridPoints])
    /\ crash_value_for_month(Ambient, cutoff, x_values[1])
          = crash_value_for_month(Ambient, cutoff, x_values[GridPoints])

\* C8: with crash_probability = 0 the expected total value of an x is exactly
\* the sum of no_crash_value_for_month over the months 1..months, and with
\* crash_probability = 1 exactly the sum of crash_value_for_month; the same for
\* expected_total_value_sensitivity with p = crash_probability.
C8_PureScenarios ==
    (pc \in {"base", "argmax"} /\ Len(expected_values) > 0) =>
        /\ crash_probability = Zero =>
              /\ expected_values[Len(expected_values)] = SumNoCrash(Ambient, LastX, months)
              /\ expected_total_value_sensitivity(Ambient, LastX, crash_probability,
                                                  cutoff, stock_crash_loss)
                    = SumNoCrash(Ambient, LastX, months)
        /\ crash_probability = One =>
              /\ expected_values[Len(expected_values)] = TotalCrash(Ambient, LastX, months)
              /\ expected_total_value_sensitivity(Ambient, LastX, crash_probability,
                                                  cutoff, stock_crash_loss)
                    = TotalCrashSensitivity(Ambient, LastX, cutoff, stock_crash_loss, months)

\* A run with crash_probability = 1 whose two totals differ: the expected value
\* of an interior x is the crash total and not the no-crash total.
C8_Witness ==
    /\ pc = "base"
    /\ Len(expected_values) = 51
    /\ crash_probability = One
    /\ expected_values[51] = TotalCrash(Ambient, LastX, months)
    /\ expected_values[51] # SumNoCrash(Ambient, LastX, months)

\* C5: the grid search returns an x in [0, 1] and the expected total value of
\* that x, and that value is at least the expected total value of x = 0, of
\* x = 1 and of every other candidate of the grid.
C5_MaximumDominates ==
    Picked =>
        /\ FLeq(Zero, optimal_x) /\ FLeq(optimal_x, One)
        /\ optimal_value = expected_total_value(Ambient, optimal_x)
        /\ FLeq(expected_total_value(Ambient, Zero), optimal_value)
        /\ FLeq(expected_total_value(Ambient, One), optimal_value)
        /\ \A n \in 1..GridPoints :
              /\ expected_values[n] = expected_total_value(Ambient, x_values[n])
              /\ FLeq(expected_values[n], optimal_value)

\* A run whose maximum is at x = 1 and lies strictly above the value of x = 0.
C5_Witness ==
    /\ Picked
    /\ optimal_x = One
    /\ FLess(expected_total_value(Ambient, Zero), optimal_value)

\* x_values is the 101 points from 0 to 1 in ascending order, a step of 0.01
\* apart (to within a hundredth of the step).
GridAscends ==
    /\ Len(x_values) = GridPoints
    /\ x_values[1] = Zero
    /\ x_values[GridPoints] = One
    /\ \A n \in 1..(GridPoints - 1) :
          /\ FLess(x_values[n], x_values[n + 1])
          /\ FLess(FDiv(FromInt(99), FromInt(10000)), FSub(x_values[n + 1], x_values[n]))
          /\ FLess(FSub(x_values[n + 1], x_values[n]), FDiv(FromInt(101), FromInt(10000)))

\* C4: the candidates are the 101 points from 0 to 1 in ascending order, a step
\* of 0.01 apart; the grid search returns the first candidate that attains the
\* maximum; where the expected total value does not depend on x (cutoff = 1 and
\* crash_probability = 1) it returns x = 0.
C4_FirstOfTheMaxima ==
    /\ GridAscends
    /\ Picked =>
          /\ optimal_x = x_values[optimal_index + 1]
          /\ expected_values[optimal_index + 1] = optimal_value
          /\ \A n \in 1..GridPoints :
                /\ FLeq(expected_values[n], optimal_value)
                /\ n < optimal_index + 1 => FLess(expected_values[n], optimal_value)
          /\ (cutoff = 1 /\ crash_probability = One) =>
                (optimal_index = 0 /\ optimal_x = Zero)

\* A run with cutoff = 1 and crash_probability = 1: every candidate has the
\* same expected total value, and x = 0 is returned.
C4_Witness ==
    /\ Picked
    /\ cutoff = 1 /\ crash_probability = One
    /\ \A n \in 1..GridPoints : expected_values[n] = optimal_value
    /\ optimal_index = 0
    /\ optimal_x = Zero

\* The x that line 117 evaluates next.
NextX == x_values[Len(expected_values) + 1]

\* C1 as stated: with stock_crash_loss = 0 and cheap_stock_annual_return =
\* stock_growth_rate, crash_value_for_month(m, x) equals
\* no_crash_value_for_month(m, x) for every month m before the cut-off month
\* and every x of the grid.
C1_Original ==
    (pc = "base" /\ stock_crash_loss = Zero
                 /\ cheap_stock_annual_return = stock_growth_rate) =>
        \A m \in 1..months :
            m < cutoff =>
                crash_value_for_month(Ambient, m, NextX)
                    = no_crash_value_for_month(Ambient, m, NextX)

\* C1, amended: with stock_crash_loss = 0 and cheap_stock_annual_return =
\* stock_growth_rate, a month m before the cut-off month is worth
\* budget * x * (1 + stock) ** t_pre
\*   + budget * (1 - x) * (1 + cash) ** t_pre * (1 + stock) ** t_post
\* in the crash scenario: the ETF leg stops growing at the crash.  That equals
\* the no-crash value where the stock rate and the cash rate are both 0; with a
\* positive stock rate the crash value of x = 1 is below the no-crash value.
C1_ZeroLossCrash ==
    (pc = "base" /\ stock_crash_loss = Zero
                 /\ cheap_stock_annual_return = stock_growth_rate) =>
        \A m \in 1..months :
            m < cutoff =>
                /\ crash_value_for_month(Ambient, m, NextX)
                      = FAdd(FMul(FMul(monthly_budget, NextX),
                                  Pow(stock_growth_rate, cutoff - m)),
                             FMul(FMul(FMul(monthly_budget, FSub(One, NextX)),
                                       Pow(cash_interest_rate, cutoff - m)),
                                  Pow(stock_growth_rate, months - cutoff)))
                /\ (stock_growth_rate = Zero /\ cash_interest_rate = Zero) =>
                      crash_value_for_month(Ambient, m, NextX)
                          = no_crash_value_for_month(Ambient, m, NextX)
                /\ stock_growth_rate # Zero =>
                      FLess(crash_value_for_month(Ambient, m, One),
                            no_crash_value_for_month(Ambient, m, One))

\* A run with no loss, equal and positive stock and cheap-stock rates and a
\* cut-off month in mid-horizon, at an interior x: the first month is worth
\* less in the crash scenario.
C1_Witness ==
    /\ pc = "base"
    /\ Len(expected_values) = 50
    /\ stock_crash_loss = Zero
    /\ cheap_stock_annual_return = stock_growth_rate
    /\ stock_growth_rate # Zero
    /\ 1 < cutoff
    /\ FLess(crash_value_for_month(Ambient, 1, NextX),
             no_crash_value_for_month(Ambient, 1, NextX))

\* C3 as stated: a stock_crash_loss of 1 or more is turned down before any
\* valuation runs, so the division of line 94 never divides by zero.
C3_NeverDividesByZero == pc # "ZeroDivisionError"

\* C6 as stated: with the sliders at the values they start with, the grid
\* search returns an x >= 0.5, with a positive expected value.
C6_Original ==
    (Picked /\ Ambient = DefaultSliders) =>
        /\ FLeq(Round(1, -1), optimal_x)
        /\ FLess(Zero, optimal_value)

\* C6, amended: with the sliders at the values they start with, the grid
\* search returns x = 0, the lower end of the range, with an expected value
\* between 14388 and 14389; x = 0.5 is worth less, and x = 1 less again.
C6_DefaultScenario ==
    (Picked /\ Ambient = DefaultSliders) =>
        /\ optimal_index = 0
        /\ optimal_x = Zero
        /\ FLess(FromInt(14388), optimal_value)
        /\ FLess(optimal_value, FromInt(14389))
        /\ FLess(expected_values[51], optimal_value)
        /\ FLess(expected_values[GridPoints], expected_values[51])

\* The run with the sliders at the values they start with has returned.
C6_Witness ==
    /\ Picked
    /\ Ambient = DefaultSliders
    /\ months = DefaultMonths
    /\ optimal_x = Zero
    /\ Len(expected_values) = GridPoints

\* C7: the optimal expected value does not decrease when stock_growth_rate is
\* raised and every other slider kept: it is at most the optimal expected
\* value of the same sliders with any higher stock rate.
C7_StockRateMonotone ==
    Picked =>
        \A h \in StockSteps :
            FLess(stock_growth_rate, StockRate(h)) =>
                \A vals \in {BaseVals([Ambient EXCEPT !.stock_growth_rate = StockRate(h)],
                                       1, GridPoints)} :
                    FLeq(optimal_value, vals[ArgMax(vals) + 1])

\* A run with stock rate 0 whose optimum is strictly below the optimum of the
\* same sliders with the stock rate at 10 %.
C7_Witness ==
    /\ Picked
    /\ stock_growth_rate = Zero
    /\ \E vals \in {BaseVals([Ambient EXCEPT !.stock_growth_rate = StockRate(20)],
                               1, GridPoints)} :
          FLess(optimal_value, vals[ArgMax(vals) + 1])

\* The cell the sweep has written last, as its row and column (1-indexed).
LastCell ==
    IF pc = "done" THEN {<<i + 1, j + 1>>}
    ELSE IF pc = "sweep" /\ j > 0 THEN {<<i + 1, j>>}
    ELSE IF pc = "sweep" /\ i > 0 THEN {<<i, months>>}
    ELSE {}

\* The globals with loss_range[r] for stock_crash_loss and cutoff_range[c] for
\* cutoff.
CellGlobals(r, c) ==
    [Ambient EXCEPT !.stock_crash_loss = loss_range[r],
                    !.cutoff = cutoff_range(Ambient)[c]]

\* C9: the two matrices of the sweep have len(loss_range) rows and
\* len(cutoff_range) columns, and the entries of a cell are the x and the value
\* that the grid search of lines 116-120 returns for the globals with the
\* cell's loss for stock_crash_loss and the cell's month for cutoff.
C9_SweepMatchesBase ==
    Picked =>
        /\ Len(optimal_x_matrix) = Len(loss_range)
        /\ Len(max_expected_value_matrix) = Len(loss_range)
        /\ \A r \in 1..Len(loss_range) :
              /\ Len(optimal_x_matrix[r]) = Len(cutoff_range(Ambient))
              /\ Len(max_expected_value_matrix[r]) = Len(cutoff_range(Ambient))
        /\ \A rc \in LastCell :
              \A G \in {CellGlobals(rc[1], rc[2])} :
                  \A vals \in {BaseVals(G, 1, GridPoints)} :
                      /\ optimal_x_matrix[rc[1]][rc[2]] = x_values[ArgMax(vals) + 1]
                      /\ max_expected_value_matrix[rc[1]][rc[2]] = vals[ArgMax(vals) + 1]

\* A finished sweep with cells at x = 0 and cells at x = 1, whose last cell
\* differs from the result of the grid search for the sliders themselves.
C9_Witness ==
    /\ pc = "done"
    /\ i + 1 = LossPoints /\ j + 1 = months
    /\ \E r \in 1..LossPoints, c \in 1..months : optimal_x_matrix[r][c] = One
    /\ \E r \in 1..LossPoints, c \in 1..months : optimal_x_matrix[r][c] = Zero
    /\ max_expected_value_matrix[LossPoints][months] # optimal_value

\* The expected total value is the same for every x in exact arithmetic: the
\* stock rate is the cash rate, and the crash scenario has no weight, or no
\* month before the crash, or neither a loss nor growth after the crash.
FlatObjective(P, cutoff_val, crash_loss) ==
    /\ P.stock_growth_rate = P.cash_interest_rate
    /\ \/ P.crash_probability = Zero
       \/ cutoff_val = 1
       \/ /\ crash_loss = Zero
          /\ P.cheap_stock_annual_return = Zero \/ cutoff_val = P.months

\* C10 as stated: the x the grid search returns is 0 or 1, for the sliders
\* themselves and in every cell of the sweep.
C10_Original ==
    Picked =>
        /\ optimal_x \in {Zero, One}
        /\ \A r \in 1..LossPoints, c \in 1..months :
              optimal_x_matrix[r][c] \in {Zero, One}

\* C10, amended: the x the grid search returns is 0 or 1, for the sliders
\* themselves and in every cell of the sweep, unless the expected total value
\* is the same for every x in exact arithmetic; there the rounding of the
\* candidates' values decides, and an interior x can be returned.
C10_EndpointUnlessFlat ==
    Picked =>
        /\ optimal_x \in {Zero, One} \/ FlatObjective(Ambient, cutoff, stock_crash_loss)
        /\ \A r \in 1..LossPoints, c \in 1..months :
              \/ optimal_x_matrix[r][c] \in {Zero, One}
              \/ FlatObjective(Ambient, cutoff_range(Ambient)[c], loss_range[r])

\* A finished sweep with an interior x in a cell, with cells at x = 0 whose
\* objective is not flat, and with a result for the sliders themselves.
C10_Witness ==
    /\ pc = "done"
    /\ optimal_x \in {Zero, One}
    /\ \E r \in 1..LossPoints, c \in 1..months :
          /\ optimal_x_matrix[r][c] \notin {Zero, One}
          /\ FLess(Zero, optimal_x_matrix[r][c]) /\ FLess(optimal_x_matrix[r][c], One)
    /\ \E r \in 1..LossPoints, c \in 1..months :
          /\ optimal_x_matrix[r][c] = Zero
          /\ ~FlatObjective(Ambient, cutoff_range(Ambient)[c], loss_range[r])
====
